---- MODULE Spec2Model ----
(***************************************************************************)
(* Handler composition of UNO-SOFT/zlog (v2): the LevelHandler (level      *)
(* gate), the MultiHandler (fan-out dispatcher) and the ConsoleHandler     *)
(* (console renderer).                                                     *)
(*                                                                         *)
(* Three specifications share the variables:                               *)
(*   Spec        the handler graph driven by one caller at a time          *)
(*   SpecCow     MultiHandler's slice in atomic.Value under concurrent     *)
(*               Add / Swap / Handle                                       *)
(*   SpecConsole ConsoleHandler's mutex and scratch buffers under          *)
(*               concurrent Handle / WithAttrs / WithGroup                 *)
(***************************************************************************)
EXTENDS Integers, Sequences, FiniteSets, TLC

\* ------------------------------------------------------------------ bounds
MaxHandlers == 4
MaxGateHandlers == 4
MaxMembers == 2
NDest == 2
InitMembers == 5
MaxAdds == 3
MaxConsoles == 2
MaxCalls == 2
MaxLoggerHandlers == 4
MaxAttrs == 2
MaxRenderHandlers == 3
MaxSize == 2
MaxRecords == 3
MaxBuffers == 2
UintBits == 3
MaxSeen == 2
MaxRoundTrips == 3

\* ------------------------------------------------------- program constants
LevelDebug == -4
LevelInfo == 0
LevelWarn == 4
LevelError == 8

Levels == {LevelDebug, LevelInfo, LevelWarn, LevelError}
Dests == 1..NDest

\* ------------------------------------------------------------------- state
VARIABLES
  heap,       \* handler objects, addressed by index (0 is the nil handler)
  levelVars,  \* *slog.LevelVar objects, addressed by index
  lastCall,   \* what the most recent operation was and what it returned
  lastSet,    \* the most recent SetLevel: [h, level], or NoSet
  arrays,     \* backing arrays of []slog.Handler slices, addressed by index
  ws,         \* MultiHandler.ws, the atomic.Value: a slice [arr, len]
  wr,         \* per writer goroutine: where it is in Add
  rd,         \* per reader goroutine: where it is in Handle
  nextId,     \* the next handler to be added
  lists,      \* every member list stored in ws or built by an append so far
  returned,   \* the handlers whose Add has returned since the last Swap
  ch,         \* ConsoleHandler objects, addressed by index
  store,      \* backing storage of the bytes.Buffers, addressed by index
  th,         \* per goroutine: where it is in ConsoleHandler.Handle
  out,        \* the Write calls the destination w has received, in order
  nrec,       \* the number of records handed to Handle so far
  loggers,    \* Logger values: the handler of the slog.Logger each points to
  rattrs,     \* the attributes of the record handed to ConsoleHandler.Handle
  rline,      \* the line Handle wrote for it, or NoLine
  rh,         \* ConsoleHandler values: the attributes their textHandler holds
  buffers,    \* Batching Buffers: inner sink, backlog, size, interval, timer
  received,   \* the deliveries made to the inner sinks, in order
  nextRec,    \* the number of the next record handled
  lastBuf,    \* the last Batching Buffer operation and what it was given
  nth,        \* each goroutine's call of ensurePrintableValueIsEmpty
  nmu,        \* jsonMarshalableMu: the goroutine that holds it, or "free"
  nbuf,       \* jsonMarshalableBuf: its contents
  rtime,      \* r.Time of the record: hour, minute, second, millisecond
  tfield,     \* the time field Handle wrote into h.buf, as characters
  ltr,        \* the LoggingTransport: its seen map and its size counter
  rt,         \* per goroutine, its RoundTrip call: position, exchange, enabled
  logOut,     \* the exchanges the logger has written, in order
  window,     \* the exchanges written since seen was last cleared
  clears      \* per Clear of seen, the number of keys it held

gvars == <<heap, levelVars, lastCall, lastSet>>
cvars == <<arrays, ws, wr, rd, nextId, lists, returned>>
xvars == <<ch, store, th, out, nrec>>
lvars == <<loggers>>
rvars == <<rattrs, rline, rh>>
bvars == <<buffers, received, nextRec, lastBuf>>
nvars == <<nth, nmu, nbuf>>
tvars == <<rtime, tfield>>
hvars == <<ltr, rt, logOut, window, clears>>

\* A slog.Leveler is either a constant slog.Level or a pointer to a LevelVar.
ConstLevel(l) == [k |-> "const", v |-> l]
VarLevel(i) == [k |-> "var", v |-> i]

\* Leveler.Level()
LevelOf(lvs, lv) == IF lv.k = "var" THEN lvs[lv.v] ELSE lv.v

\* Handler objects.  from is the handler this one was derived from by
\* WithAttrs / WithGroup (0: constructed directly); ctx counts the derive
\* calls that built it.
SinkObj(lv, d, f, c) ==
  [kind |-> "sink", level |-> lv, handler |-> 0, ws |-> <<>>, dest |-> d, from |-> f, ctx |-> c]
LevelObj(lv, h, f, c) ==
  [kind |-> "level", level |-> lv, handler |-> h, ws |-> <<>>, dest |-> 0, from |-> f, ctx |-> c]
MultiObj(hs, f, c) ==
  [kind |-> "multi", level |-> ConstLevel(LevelInfo), handler |-> 0, ws |-> hs, dest |-> 0, from |-> f, ctx |-> c]
\* customSourceHandler{Handler: slog.NewJSONHandler(w, &o)}, o.Level = lv
SourceObj(lv, d, f, c) ==
  [kind |-> "source", level |-> lv, handler |-> 0, ws |-> <<>>, dest |-> d, from |-> f, ctx |-> c]

NoCall == [op |-> "none", h |-> 0, level |-> 0, fail |-> {}, calls |-> <<>>,
           written |-> <<>>, err |-> 0, res |-> FALSE]
NoSet == [h |-> 0, level |-> 0]

\* The caller is between two operations.
Idle == lastCall.op = "none"

Ids(hp) == 1..Len(hp)

\* ------------------------------------------------------------ LevelHandler

\* NewLevelHandler: a gate over a gate takes the inner gate's handler.
NewLevelHandler(hp, lv, h, f, c) ==
  LET inner == IF h # 0 /\ hp[h].kind = "level" THEN hp[h].handler ELSE h
  IN  Append(hp, LevelObj(lv, inner, f, c))

\* (variant) a record at the threshold itself is refused
LevelHandlerEnabledStrict(lvs, obj, level) == level > LevelOf(lvs, obj.level)

\* LevelHandler.Enabled
LevelHandlerEnabled(lvs, obj, level) == level >= LevelOf(lvs, obj.level)

\* ------------------------------------------------------- Enabled, any kind
RECURSIVE HandlerEnabled(_, _, _, _)
RECURSIVE MultiEnabledLoop(_, _, _, _, _)

\* (variant) the loop reports enabled only if every member is enabled
RECURSIVE MultiEnabledLoopAll(_, _, _, _, _)
MultiEnabledLoopAll(hp, lvs, hs, i, level) ==
  IF i > Len(hs) THEN TRUE
  ELSE IF ~HandlerEnabled(hp, lvs, hs[i], level) THEN FALSE
  ELSE MultiEnabledLoopAll(hp, lvs, hs, i + 1, level)

\* MultiHandler.Enabled: the loop over the members, from index i on.
MultiEnabledLoop(hp, lvs, hs, i, level) ==
  IF i > Len(hs) THEN FALSE
  ELSE IF HandlerEnabled(hp, lvs, hs[i], level) THEN TRUE
  ELSE MultiEnabledLoop(hp, lvs, hs, i + 1, level)

MultiHandlerEnabled(hp, lvs, obj, level) == MultiEnabledLoop(hp, lvs, obj.ws, 1, level)

\* The sink's own level check (slog.JSONHandler / ConsoleHandler .Enabled).
SinkEnabled(lvs, obj, level) == level >= LevelOf(lvs, obj.level)

HandlerEnabled(hp, lvs, h, level) ==
  CASE hp[h].kind = "sink"  -> SinkEnabled(lvs, hp[h], level)
    [] hp[h].kind = "source" -> SinkEnabled(lvs, hp[h], level)
    [] hp[h].kind = "level" -> LevelHandlerEnabled(lvs, hp[h], level)
    [] hp[h].kind = "multi" -> MultiHandlerEnabled(hp, lvs, hp[h], level)

\* ------------------------------------------------------------------ Handle
\* A Handle call returns the destinations written, in order, and the error
\* (0 for nil; a failing destination's write error is its number).
Ret(w, e) == [written |-> w, err |-> e]

RECURSIVE HandlerHandle(_, _, _, _, _)
RECURSIVE MultiHandleLoop(_, _, _, _, _, _, _)

\* (variant) the loop returns at the first member that fails
RECURSIVE MultiHandleLoopStop(_, _, _, _, _, _, _)
MultiHandleLoopStop(hp, lvs, hs, i, level, fail, acc) ==
  IF i > Len(hs) \/ acc.err # 0 THEN acc
  ELSE IF ~HandlerEnabled(hp, lvs, hs[i], level)
       THEN MultiHandleLoopStop(hp, lvs, hs, i + 1, level, fail, acc)
  ELSE LET r == HandlerHandle(hp, lvs, hs[i], level, fail)
       IN  MultiHandleLoopStop(hp, lvs, hs, i + 1, level, fail,
             [calls |-> Append(acc.calls, i),
              written |-> acc.written \o r.written,
              err |-> r.err])

\* (variant) the loop hands the record to every member, enabled or not
RECURSIVE MultiHandleLoopAll(_, _, _, _, _, _, _)
MultiHandleLoopAll(hp, lvs, hs, i, level, fail, acc) ==
  IF i > Len(hs) THEN acc
  ELSE LET r == HandlerHandle(hp, lvs, hs[i], level, fail)
           firstErr == IF r.err # 0 /\ acc.err = 0 THEN r.err ELSE acc.err
       IN  MultiHandleLoopAll(hp, lvs, hs, i + 1, level, fail,
             [calls |-> Append(acc.calls, i),
              written |-> acc.written \o r.written,
              err |-> firstErr])

\* MultiHandler.Handle: the loop over the members, from index i on; acc is
\* [calls, written, err] so far (calls: the member positions invoked).
MultiHandleLoop(hp, lvs, hs, i, level, fail, acc) ==
  IF i > Len(hs) THEN acc
  ELSE IF ~HandlerEnabled(hp, lvs, hs[i], level)
       THEN MultiHandleLoop(hp, lvs, hs, i + 1, level, fail, acc)
  ELSE LET r == HandlerHandle(hp, lvs, hs[i], level, fail)
           firstErr == IF r.err # 0 /\ acc.err = 0 THEN r.err ELSE acc.err
       IN  MultiHandleLoop(hp, lvs, hs, i + 1, level, fail,
             [calls |-> Append(acc.calls, i),
              written |-> acc.written \o r.written,
              err |-> firstErr])

MultiHandlerHandle(hp, lvs, obj, level, fail) ==
  MultiHandleLoop(hp, lvs, obj.ws, 1, level, fail,
                  [calls |-> <<>>, written |-> <<>>, err |-> 0])

\* (variant) a gate without inner handler reports an error
LevelHandlerHandleErr(hp, lvs, obj, level, fail) ==
  IF obj.handler = 0 THEN Ret(<<>>, 1)
  ELSE HandlerHandle(hp, lvs, obj.handler, level, fail)

\* LevelHandler.Handle: nil inner handler is a no-op, else forward.
LevelHandlerHandle(hp, lvs, obj, level, fail) ==
  IF obj.handler = 0 THEN Ret(<<>>, 0)
  ELSE HandlerHandle(hp, lvs, obj.handler, level, fail)

\* The sink writes the record to its destination, whatever the level.
SinkHandle(obj, fail) == Ret(<<obj.dest>>, IF obj.dest \in fail THEN obj.dest ELSE 0)

\* customSourceHandler.Handle: returns nil when the embedded handler is not
\* enabled for the record's level, else forwards to it.
SourceHandle(lvs, obj, level, fail) ==
  IF ~SinkEnabled(lvs, obj, level) THEN Ret(<<>>, 0) ELSE SinkHandle(obj, fail)

HandlerHandle(hp, lvs, h, level, fail) ==
  CASE hp[h].kind = "sink"  -> SinkHandle(hp[h], fail)
    [] hp[h].kind = "source" -> SourceHandle(lvs, hp[h], level, fail)
    [] hp[h].kind = "level" -> LevelHandlerHandle(hp, lvs, hp[h], level, fail)
    [] hp[h].kind = "multi" ->
         LET r == MultiHandlerHandle(hp, lvs, hp[h], level, fail)
         IN  Ret(r.written, r.err)

\* ---------------------------------------------------- WithAttrs / WithGroup
\* Both build the derived handler the same way; they return the new heap and
\* the new handler's index.
RECURSIVE Derive(_, _)
RECURSIVE DeriveAll(_, _, _, _)

\* for i, h := range hs { hs[i] = h.WithAttrs(attrs) }
DeriveAll(hp, hs, i, ids) ==
  IF i > Len(hs) THEN [hp |-> hp, ids |-> ids]
  ELSE LET r == Derive(hp, hs[i])
       IN  DeriveAll(r.hp, hs, i + 1, Append(ids, r.id))

\* the sink's WithAttrs / WithGroup: a new sink on the same destination
SinkWith(hp, h) ==
  LET hp2 == Append(hp, SinkObj(hp[h].level, hp[h].dest, h, hp[h].ctx + 1))
  IN  [hp |-> hp2, id |-> Len(hp2)]

\* customSourceHandler.WithAttrs / WithGroup: a copy over the derived handler
SourceWith(hp, h) ==
  LET hp2 == Append(hp, SourceObj(hp[h].level, hp[h].dest, h, hp[h].ctx + 1))
  IN  [hp |-> hp2, id |-> Len(hp2)]

\* LevelHandler.WithAttrs / WithGroup
LevelHandlerWith(hp, h) ==
  LET r == Derive(hp, hp[h].handler)
      hp2 == NewLevelHandler(r.hp, hp[h].level, r.id, h, hp[h].ctx + 1)
  IN  [hp |-> hp2, id |-> Len(hp2)]

\* MultiHandler.WithAttrs / WithGroup
MultiHandlerWith(hp, h) ==
  LET r == DeriveAll(hp, hp[h].ws, 1, <<>>)
      hp2 == Append(r.hp, MultiObj(r.ids, h, hp[h].ctx + 1))
  IN  [hp |-> hp2, id |-> Len(hp2)]

Derive(hp, h) ==
  CASE hp[h].kind = "sink"  -> SinkWith(hp, h)
    [] hp[h].kind = "source" -> SourceWith(hp, h)
    [] hp[h].kind = "level" -> LevelHandlerWith(hp, h)
    [] hp[h].kind = "multi" -> MultiHandlerWith(hp, h)

\* h.handler.WithAttrs on a nil inner handler panics: such a call never
\* returns a handler.
RECURSIVE CanDerive(_, _)
CanDerive(hp, h) ==
  CASE hp[h].kind = "sink"  -> TRUE
    [] hp[h].kind = "source" -> TRUE
    [] hp[h].kind = "level" -> hp[h].handler # 0 /\ CanDerive(hp, hp[h].handler)
    [] hp[h].kind = "multi" -> \A i \in 1..Len(hp[h].ws) : CanDerive(hp, hp[h].ws[i])

\* ----------------------------------------------------------------- actions
\* The levelers a gate is constructed with: a constant slog.Level or the
\* *slog.LevelVar.  SetLevel's argument is drawn from SetLevels.
GateLevels == {ConstLevel(LevelError), VarLevel(1)}
SetLevels == {LevelDebug, LevelWarn}

\* NewLevelHandler(level, h), over nil, a sink or another gate (a gate over a
\* MultiHandler that holds the gate would make Handle recurse without end);
\* max bounds the number of handler objects.
NewLevel(lv, h, max) ==
  /\ Idle
  /\ Len(heap) < max
  /\ h # 0 => heap[h].kind # "multi"
  /\ heap' = NewLevelHandler(heap, lv, h, 0, 0)
  /\ lastCall' = NoCall
  /\ UNCHANGED <<levelVars, lastSet>>

\* LevelHandler.SetLevel(level): Set on a level that has Set, else replace
\* this handler's level by the constant.
SetLevelHeap(hp, h, l) ==
  IF hp[h].level.k = "var" THEN hp ELSE [hp EXCEPT ![h].level = ConstLevel(l)]
SetLevelVars(hp, lvs, h, l) ==
  IF hp[h].level.k = "var" THEN [lvs EXCEPT ![hp[h].level.v] = l] ELSE lvs

SetLevel(h, l) ==
  /\ Idle
  /\ heap[h].kind = "level"
  /\ heap' = SetLevelHeap(heap, h, l)
  /\ levelVars' = SetLevelVars(heap, levelVars, h, l)
  /\ lastSet' = [h |-> h, level |-> l]
  /\ lastCall' = NoCall

\* h.WithAttrs(attrs) / h.WithGroup(name)
With(h, max) ==
  /\ Idle
  /\ CanDerive(heap, h)
  /\ LET r == Derive(heap, h)
     IN  /\ Len(r.hp) <= max
         /\ heap' = r.hp
  /\ lastCall' = NoCall
  /\ UNCHANGED <<levelVars, lastSet>>

\* MultiHandler.Add(w), one caller at a time
Add(m, w) ==
  /\ Idle
  /\ heap[m].kind = "multi"
  /\ heap[w].kind # "multi"
  /\ Len(heap[m].ws) < MaxMembers
  /\ heap' = [heap EXCEPT ![m].ws = Append(@, w)]
  /\ lastCall' = NoCall
  /\ UNCHANGED <<levelVars, lastSet>>

\* MultiHandler.Swap(ws...)
Swap(m, hs) ==
  /\ Idle
  /\ heap[m].kind = "multi"
  /\ heap[m].ws # hs
  /\ heap' = [heap EXCEPT ![m].ws = hs]
  /\ lastCall' = NoCall
  /\ UNCHANGED <<levelVars, lastSet>>

\* h.Enabled(ctx, level)
CallEnabled(h, level) ==
  /\ Idle
  /\ lastCall' = [NoCall EXCEPT !.op = "Enabled", !.h = h, !.level = level,
                                !.res = HandlerEnabled(heap, levelVars, h, level)]
  /\ UNCHANGED <<heap, levelVars, lastSet>>

\* lw.Handle(ctx, r) on a MultiHandler, with the destinations in fail
\* refusing the write
CallHandle(m, level, fail) ==
  /\ Idle
  /\ heap[m].kind = "multi"
  /\ LET r == MultiHandlerHandle(heap, levelVars, heap[m], level, fail)
     IN  lastCall' = [NoCall EXCEPT !.op = "Handle", !.h = m, !.level = level,
                                    !.fail = fail, !.calls = r.calls,
                                    !.written = r.written, !.err = r.err]
  /\ UNCHANGED <<heap, levelVars, lastSet>>

\* h.Handle(ctx, r) on a *LevelHandler, h = 0 standing for the nil pointer
\* (if h == nil || h.handler == nil { return nil }).
CallHandleGate(h, level, fail) ==
  /\ Idle
  /\ h # 0 => heap[h].kind = "level"
  /\ LET r == IF h = 0 THEN Ret(<<>>, 0)
              ELSE LevelHandlerHandle(heap, levelVars, heap[h], level, fail)
     IN  lastCall' = [NoCall EXCEPT !.op = "Handle", !.h = h, !.level = level,
                                    !.fail = fail, !.written = r.written,
                                    !.err = r.err]
  /\ UNCHANGED <<heap, levelVars, lastSet>>

\* The caller drops the result of the call (Logger.log: _ = Handle(ctx, r)).
Return ==
  /\ ~Idle
  /\ lastCall' = NoCall
  /\ UNCHANGED <<heap, levelVars, lastSet>>

\* ------------------------------------------------------------------ Logger
\* Logger.SetLevel(level): SetLevel on the LevelHandler the Logger holds; a
\* Logger over any other handler gets a new LevelHandler{level, handler}.
LoggerSetLevel(g, l) ==
  LET h == loggers[g]
  IN  /\ Idle
      /\ IF heap[h].kind = "level"
         THEN /\ heap' = SetLevelHeap(heap, h, l)
              /\ levelVars' = SetLevelVars(heap, levelVars, h, l)
              /\ loggers' = loggers
         ELSE /\ heap' = Append(heap, LevelObj(ConstLevel(l), h, 0, 0))
              /\ levelVars' = levelVars
              /\ loggers' = [loggers EXCEPT ![g] = Len(heap) + 1]
      /\ lastSet' = [h |-> h, level |-> l]
      /\ lastCall' = NoCall

\* Logger.log (Debug, Info, Warn) and slog.Logger.Error: nothing happens
\* unless the handler is enabled for the level, else the record is handed to
\* Handler().Handle and the result dropped.
LoggerLog(g, level) ==
  LET h == loggers[g]
      en == HandlerEnabled(heap, levelVars, h, level)
      r == IF en THEN HandlerHandle(heap, levelVars, h, level, {}) ELSE Ret(<<>>, 0)
  IN  /\ Idle
      /\ lastCall' = [NoCall EXCEPT !.op = "log", !.h = h, !.level = level,
                                    !.res = en, !.written = r.written]
      /\ UNCHANGED <<heap, levelVars, lastSet, loggers>>

\* Logger.WithValues / Logger.WithGroup: a new Logger on the derived handler
LoggerWith(g) ==
  /\ Idle
  /\ CanDerive(heap, loggers[g])
  /\ LET r == Derive(heap, loggers[g])
     IN  /\ Len(r.hp) <= MaxLoggerHandlers
         /\ heap' = r.hp
         /\ loggers' = Append(loggers, r.id)
  /\ lastCall' = NoCall
  /\ UNCHANGED <<levelVars, lastSet>>

\* Logger.V(off), off # 0: a new Logger on &LevelHandler{level - off, h}, h
\* the receiver's handler and level its level if it is a LevelHandler, else
\* LevelInfo.  The struct is built directly, not by NewLevelHandler.
LoggerV(g, off) ==
  LET h == loggers[g]
      level == IF heap[h].kind = "level" THEN LevelOf(levelVars, heap[h].level)
               ELSE LevelInfo
  IN  /\ Idle
      /\ Len(heap) < MaxLoggerHandlers
      /\ heap' = Append(heap, LevelObj(ConstLevel(level - off), h, 0, 0))
      /\ loggers' = Append(loggers, Len(heap) + 1)
      /\ lastCall' = NoCall
      /\ UNCHANGED <<levelVars, lastSet>>

\* NewLevelHandler(lv, lgr.SLog().Handler()): a gate constructed over the
\* handler a Logger holds.
LoggerNewLevel(lv, g) ==
  /\ Idle
  /\ Len(heap) < MaxLoggerHandlers
  /\ heap' = NewLevelHandler(heap, lv, loggers[g], 0, 0)
  /\ lastCall' = [NoCall EXCEPT !.op = "NewLevelHandler", !.h = loggers[g]]
  /\ UNCHANGED <<levelVars, lastSet, loggers>>

\* ------------------------------------- MultiHandler.ws under concurrency
Writers == {"w1", "w2"}
Readers == {"r1"}

NilSlice == [arr |-> 0, len |-> 0]
Cap(arrs, sl) == IF sl.arr = 0 THEN 0 ELSE Len(arrs[sl.arr])
Contents(arrs, sl) == [i \in 1..sl.len |-> arrs[sl.arr][i]]

\* append(sl, w): in place when the backing array has room, else into a new
\* backing array of twice the capacity (of capacity 1 after none).
AppendSlice(arrs, sl, w) ==
  IF sl.len < Cap(arrs, sl)
  THEN [arrs |-> [arrs EXCEPT ![sl.arr][sl.len + 1] = w],
        sl |-> [arr |-> sl.arr, len |-> sl.len + 1]]
  ELSE LET a == [i \in 1..(IF Cap(arrs, sl) = 0 THEN 1 ELSE 2 * Cap(arrs, sl)) |->
                   IF i <= sl.len THEN arrs[sl.arr][i]
                   ELSE IF i = sl.len + 1 THEN w ELSE 0]
       IN  [arrs |-> Append(arrs, a), sl |-> [arr |-> Len(arrs) + 1, len |-> sl.len + 1]]

\* NewMultiHandler() followed by Add(1), ..., Add(n), one after the other.
RECURSIVE BuildAdds(_)
BuildAdds(n) ==
  IF n = 0 THEN [arrs |-> <<>>, sl |-> NilSlice]
  ELSE LET b == BuildAdds(n - 1) IN AppendSlice(b.arrs, b.sl, n)

WIdle == [pc |-> "idle", sl |-> NilSlice, w |-> 0]
RIdle == [pc |-> "idle", sl |-> NilSlice, i |-> 0, visited |-> <<>>, must |-> {}]

\* Add, first part: lw.ws.Load()
AddLoad(t) ==
  /\ wr[t].pc = "idle"
  /\ nextId <= InitMembers + MaxAdds
  /\ wr' = [wr EXCEPT ![t] = [pc |-> "loaded", sl |-> ws, w |-> nextId]]
  /\ nextId' = nextId + 1
  /\ UNCHANGED <<arrays, ws, rd, lists, returned>>

\* Add, second part: append(loaded, w)
AddAppend(t) ==
  /\ wr[t].pc = "loaded"
  /\ LET r == AppendSlice(arrays, wr[t].sl, wr[t].w)
     IN  /\ arrays' = r.arrs
         /\ wr' = [wr EXCEPT ![t] = [pc |-> "appended", sl |-> r.sl, w |-> wr[t].w]]
         /\ lists' = lists \cup {Contents(r.arrs, r.sl)}
  /\ UNCHANGED <<ws, rd, nextId, returned>>

\* Add, last part: lw.ws.Store(appended); Add returns
AddStore(t) ==
  /\ wr[t].pc = "appended"
  /\ ws' = wr[t].sl
  /\ returned' = returned \cup {wr[t].w}
  /\ wr' = [wr EXCEPT ![t] = WIdle]
  /\ UNCHANGED <<arrays, rd, nextId, lists>>

\* Swap(): lw.ws.Store(ws) with no handlers
SwapStore(t) ==
  /\ wr[t].pc = "idle"
  /\ ws # NilSlice
  /\ ws' = NilSlice
  /\ returned' = {}
  /\ lists' = lists \cup {<<>>}
  /\ UNCHANGED <<arrays, wr, rd, nextId>>

\* Handle, first part: range lw.ws.Load() fixes the slice to iterate
HandleLoad(t) ==
  /\ rd[t].pc = "idle"
  /\ rd' = [rd EXCEPT ![t] = [pc |-> IF ws.len = 0 THEN "done" ELSE "iter",
                              sl |-> ws, i |-> 1, visited |-> <<>>, must |-> returned]]
  /\ UNCHANGED <<arrays, ws, wr, nextId, lists, returned>>

\* Handle, the loop body: the i-th element of the loaded slice is invoked
HandleRead(t) == arrays[rd[t].sl.arr][rd[t].i]

HandleNext(t) ==
  /\ rd[t].pc = "iter"
  /\ rd' = [rd EXCEPT ![t].visited = Append(@, HandleRead(t)),
                      ![t].i = @ + 1,
                      ![t].pc = IF rd[t].i = rd[t].sl.len THEN "done" ELSE "iter"]
  /\ UNCHANGED <<arrays, ws, wr, nextId, lists, returned>>

\* Handle returns
HandleReturn(t) ==
  /\ rd[t].pc = "done"
  /\ rd' = [rd EXCEPT ![t] = RIdle]
  /\ UNCHANGED <<arrays, ws, wr, nextId, lists, returned>>

\* ----------------------------------------- ConsoleHandler under concurrency
Goroutines == {"g1", "g2"}

\* A ConsoleHandler: mu (held or not), the storage behind buf and attrBuf
\* (0: the buffer has not allocated yet), and the handler it was copied from.
ConsoleObj(m, b, a, f) == [mu |-> m, buf |-> b, attrBuf |-> a, from |-> f]

\* What a buffer's storage holds: the record whose message and whose
\* attributes were written there.
Line(m, a) == [msg |-> m, attrs |-> a]

TIdle == [pc |-> "idle", h |-> 0, rec |-> 0, attrs |-> FALSE]

\* WithAttrs / WithGroup: h2 := *h copies the mutex in whatever state it is
\* and the headers of both buffers, which go on pointing at the same storage.
ConsoleWith(h) ==
  /\ Len(ch) < MaxConsoles
  /\ ch' = Append(ch, ConsoleObj(ch[h].mu, ch[h].buf, ch[h].attrBuf, h))
  /\ UNCHANGED <<store, th, out, nrec>>

\* h.Handle(ctx, r) is called; attrs: r.NumAttrs() != 0
HCall(t, h, attrs) ==
  /\ th[t].pc = "idle"
  /\ nrec < MaxCalls
  /\ nrec' = nrec + 1
  /\ th' = [th EXCEPT ![t] = [pc |-> "lock", h |-> h, rec |-> nrec + 1, attrs |-> attrs]]
  /\ UNCHANGED <<ch, store, out>>

\* (variant) Lock does not wait
MuFreeAlways(h) == TRUE

\* h.mu can be locked
MuFree(h) == ~ch[h].mu

\* h.mu.Lock()
HLock(t) ==
  /\ th[t].pc = "lock"
  /\ MuFree(th[t].h)
  /\ ch' = [ch EXCEPT ![th[t].h].mu = TRUE]
  /\ th' = [th EXCEPT ![t].pc = "head"]
  /\ UNCHANGED <<store, out, nrec>>

\* h.buf.Reset() and the writes of time, level, source and message into
\* h.buf; the buffer allocates its storage at the first write.
HHead(t) ==
  LET h == th[t].h
      b == IF ch[h].buf = 0 THEN Len(store) + 1 ELSE ch[h].buf
  IN  /\ th[t].pc = "head"
      /\ store' = IF ch[h].buf = 0 THEN Append(store, Line(th[t].rec, 0))
                  ELSE [store EXCEPT ![b] = Line(th[t].rec, 0)]
      /\ ch' = [ch EXCEPT ![h].buf = b]
      /\ th' = [th EXCEPT ![t].pc = "attrs"]
      /\ UNCHANGED <<out, nrec>>

\* h.attrBuf.Reset(); with attributes, textHandler.Handle writes them into
\* h.attrBuf and they are appended to h.buf after " attrs=".
HAttrs(t) ==
  LET h == th[t].h
      a == IF ch[h].attrBuf = 0 /\ th[t].attrs THEN Len(store) + 1 ELSE ch[h].attrBuf
      st1 == IF a = 0 THEN store
             ELSE IF a > Len(store) THEN Append(store, Line(0, th[t].rec))
             ELSE [store EXCEPT ![a] = Line(0, IF th[t].attrs THEN th[t].rec ELSE 0)]
      got == IF a = 0 THEN 0 ELSE st1[a].attrs
  IN  /\ th[t].pc = "attrs"
      /\ store' = [st1 EXCEPT ![ch[h].buf].attrs = got]
      /\ ch' = [ch EXCEPT ![h].attrBuf = a]
      /\ th' = [th EXCEPT ![t].pc = "write"]
      /\ UNCHANGED <<out, nrec>>

\* h.w.Write(h.buf.Bytes()) is entered: the destination gets what the
\* storage of h.buf holds.
HWrite(t) ==
  /\ th[t].pc = "write"
  /\ out' = Append(out, [h |-> th[t].h, rec |-> th[t].rec, attrs |-> th[t].attrs,
                         line |-> store[ch[th[t].h].buf]])
  /\ th' = [th EXCEPT ![t].pc = "inwrite"]
  /\ UNCHANGED <<ch, store, nrec>>

\* Write returns, the deferred h.mu.Unlock() runs, Handle returns
HUnlock(t) ==
  /\ th[t].pc = "inwrite"
  /\ ch' = [ch EXCEPT ![th[t].h].mu = FALSE]
  /\ th' = [th EXCEPT ![t] = TIdle]
  /\ UNCHANGED <<store, out, nrec>>

\* What goroutine t does inside Handle once it has been called.
HSteps(t) == HLock(t) \/ HHead(t) \/ HAttrs(t) \/ HWrite(t) \/ HUnlock(t)

\* ----------------------------------------- ConsoleHandler: the attrs segment
\* An attribute is [key, val]; val stands for a slog.Value:
\*   "str_empty"  KindString, ""          "str"   KindString, not empty
\*   "int0"       KindInt64, 0            "group" KindGroup, holding x=1
\*   "any_nil"    KindAny, nil            "any"   KindAny, a value that is
\*                                                not empty (an error, ...)
Attrs == [key : {"", "a", "time", "level", "source", "msg"},
          val : {"str_empty", "str", "int0", "any_nil", "any", "group"}]

ReservedKeys == {"time", "level", "source", "msg"}

\* Value.Kind()
KindOf(v) ==
  CASE v \in {"str_empty", "str"} -> "String"
    [] v = "int0"                  -> "Int64"
    [] v = "group"                 -> "Group"
    [] v \in {"any_nil", "any"}    -> "Any"

zeroAttr == [key |-> "", val |-> "any_nil"]

\* ensurePrintableValueIsEmpty: false for every kind but KindAny; a nil is
\* empty; any other value is replaced by its printable form and kept.
ensurePrintableValueIsEmpty(v) ==
  IF KindOf(v) # "Any" THEN [isEmpty |-> FALSE, value |-> v]
  ELSE IF v = "any_nil" THEN [isEmpty |-> TRUE, value |-> v]
  ELSE [isEmpty |-> FALSE, value |-> "str"]

\* opts.ReplaceAttr of newConsoleHandlerOptions
ReplaceAttr(a) ==
  IF a.key \in ReservedKeys THEN zeroAttr
  ELSE IF KindOf(a.val) = "Any"
  THEN LET e == ensurePrintableValueIsEmpty(a.val)
       IN  IF e.isEmpty THEN zeroAttr ELSE [key |-> a.key, val |-> e.value]
  ELSE a

\* slog's JSON handler, one attribute: ReplaceAttr is applied to every
\* attribute that is not a group, an attribute with empty key and zero value
\* is left out, a group with an empty key is inlined; the result is the
\* members written into the JSON object.
JSONAppendAttr(a) ==
  LET b == IF KindOf(a.val) # "Group" THEN ReplaceAttr(a) ELSE a
  IN  IF b = zeroAttr THEN <<>>
      ELSE IF KindOf(b.val) = "Group" /\ b.key = "" THEN <<[key |-> "x", val |-> "int0"]>>
      ELSE <<b>>

\* textHandler.Handle(ctx, r) with time, level, PC and message zeroed: the
\* members of the object written into attrBuf ("level" and "msg" go through
\* ReplaceAttr and are left out, a zero time is not written at all).
RECURSIVE JSONMembers(_)
JSONMembers(as) ==
  IF as = <<>> THEN <<>> ELSE JSONAppendAttr(Head(as)) \o JSONMembers(Tail(as))

\* for bytes.HasPrefix(b, []byte(`"":""`)) { b = b[6:] }
RECURSIVE StripEmptyPrefix(_)
StripEmptyPrefix(ms) ==
  IF ms # <<>> /\ Head(ms) = [key |-> "", val |-> "str_empty"]
  THEN StripEmptyPrefix(Tail(ms)) ELSE ms

NoLine == [done |-> FALSE, h |-> 0, attrs |-> FALSE, entries |-> <<>>]

\* ConsoleHandler.Handle from h.attrBuf.Reset() on, pre being the attributes
\* h.textHandler was given by WithAttrs: the encoder runs only for a record
\* that has attributes and then always writes an object, "{}" at least, with
\* the handler's attributes before the record's; attrBuf is emptied only if
\* a prefix of empty members was stripped and nothing is left; the line gets
\* " attrs=" and attrBuf if attrBuf is not empty, else the newline.
ConsoleLine(pre, as) ==
  IF Len(as) = 0 THEN [done |-> TRUE, h |-> 0, attrs |-> FALSE, entries |-> <<>>]
  ELSE LET ms == JSONMembers(pre) \o JSONMembers(as)
           b == StripEmptyPrefix(ms)
           changed == b # ms
           bufLen0 == changed /\ b = <<>>
       IN  [done |-> TRUE, h |-> 0, attrs |-> ~bufLen0, entries |-> b]

\* A ConsoleHandler: the attributes of its textHandler, the handler it was
\* derived from (0: NewConsoleHandler made it) and the argument of that call.
RenderObj(pre, from, arg) == [textHandler |-> pre, from |-> from, arg |-> arg]

\* ConsoleHandler.WithAttrs: a copy of the receiver whose textHandler is a
\* new JSON handler that holds attrs
ConsoleHandlerWithAttrs(hs, h, as) ==
  Append(hs, RenderObj(as, h, as))

\* h2 := h.WithAttrs(attrs)
ConsoleWithAttrs(h, as) ==
  /\ ~rline.done
  /\ Len(rh) < MaxRenderHandlers
  /\ rh' = ConsoleHandlerWithAttrs(rh, h, as)
  /\ UNCHANGED <<rattrs, rline>>

\* h.Handle(ctx, r)
ConsoleRender(h) ==
  /\ ~rline.done
  /\ rline' = [ConsoleLine(rh[h].textHandler, rattrs) EXCEPT !.h = h]
  /\ UNCHANGED <<rattrs, rh>>

\* ---------------------------------------------------------- Batching Buffer
\* A record is [id, by]: its number and the Buffer whose handle took it.  A
\* delivery is [rec, sink, ok]: the inner sink's handle was called with rec
\* and returned nil (ok) or an error.  Inner sinks are numbered; a derived
\* form of an inner sink is a sink of its own.
NoBuf == [op |-> "none", b |-> 0, backlog |-> <<>>, since |-> 0, before |-> 0,
          f |-> 0, flushed |-> FALSE, res |-> 0]

BufferIdle == buffers = <<>> /\ received = <<>> /\ nextRec = 1 /\ lastBuf = NoBuf

\* A Buffer as constructed: empty backlog, timer not started; since counts
\* the handle calls since the last flush.
NewBuffer(inner, size, interval) ==
  [inner |-> inner, backlog |-> <<>>, size |-> size, interval |-> interval,
   timer |-> FALSE, since |-> 0]

\* (variant) the threshold must be exceeded
ReachesThresholdOver(size, n) == size > 0 /\ n > size

\* handle: the backlog length reaches the size threshold; a threshold of 0
\* disables the size-triggered flush
ReachesThreshold(size, n) == size > 0 /\ n >= size

\* (variant) a failing delivery does not stop the flush
FlushDeliveriesAll(bl, sink, f) ==
  [i \in 1..Len(bl) |-> [rec |-> bl[i], sink |-> sink, ok |-> i # f]]

\* flush: the deliveries made for backlog bl, first to last, the f-th being
\* the first that fails (0: none fails); nothing is delivered after it
FlushDeliveries(bl, sink, f) ==
  [i \in 1..(IF f = 0 THEN Len(bl) ELSE f) |-> [rec |-> bl[i], sink |-> sink, ok |-> i # f]]

\* flush: the whole backlog is cleared afterwards
Flushed(buf) == [buf EXCEPT !.backlog = <<>>, !.since = 0]

\* (variant) the new Buffer is a copy of the receiver on the derived sink
DerivedBufferCopy(buf, inner) == [buf EXCEPT !.inner = inner]

\* derive: a new Buffer on the inner sink's derived form with the same size
\* and interval, and a timer not started
DerivedBuffer(buf, inner) == NewBuffer(inner, buf.size, buf.interval)

\* handle(record)
BufferHandle(b, f) ==
  /\ lastBuf = NoBuf
  /\ nextRec <= MaxRecords
  /\ LET buf == buffers[b]
         bl == Append(buf.backlog, [id |-> nextRec, by |-> b])
         reach == ReachesThreshold(buf.size, Len(bl))
     IN  /\ f \in 0..(IF reach THEN Len(bl) ELSE 0)
         /\ IF reach
            THEN /\ buffers' = [buffers EXCEPT ![b] = Flushed(buf)]
                 /\ received' = received \o FlushDeliveries(bl, buf.inner, f)
            ELSE /\ buffers' = [buffers EXCEPT ![b] =
                                  [buf EXCEPT !.backlog = bl, !.since = buf.since + 1,
                                              !.timer = buf.timer \/ buf.interval # 0]]
                 /\ UNCHANGED received
         /\ lastBuf' = [op |-> "handle", b |-> b, backlog |-> bl, since |-> buf.since + 1,
                        before |-> Len(received), f |-> f, flushed |-> reach, res |-> 0]
  /\ nextRec' = nextRec + 1

\* flush(context), called by the user (by "user") or by the periodic flush
\* loop of a started timer (by "tick")
BufferFlush(by, b, f) ==
  /\ lastBuf = NoBuf
  /\ by = "tick" => buffers[b].timer
  /\ f \in 0..Len(buffers[b].backlog)
  /\ buffers' = [buffers EXCEPT ![b] = Flushed(buffers[b])]
  /\ received' = received \o FlushDeliveries(buffers[b].backlog, buffers[b].inner, f)
  /\ lastBuf' = [op |-> "flush", b |-> b, backlog |-> buffers[b].backlog, since |-> buffers[b].since,
                 before |-> Len(received), f |-> f, flushed |-> TRUE, res |-> 0]
  /\ UNCHANGED nextRec

\* derive-with-attributes / derive-with-group: with an empty argument the
\* same Buffer; else the backlog is flushed and a new Buffer returned
BufferWith(b, empty, f) ==
  /\ lastBuf = NoBuf
  /\ IF empty
     THEN /\ f = 0
          /\ UNCHANGED <<buffers, received>>
          /\ lastBuf' = [op |-> "with", b |-> b, backlog |-> buffers[b].backlog,
                         since |-> buffers[b].since, before |-> Len(received), f |-> 0,
                         flushed |-> FALSE, res |-> b]
     ELSE /\ Len(buffers) < MaxBuffers
          /\ f \in 0..Len(buffers[b].backlog)
          /\ received' = received \o FlushDeliveries(buffers[b].backlog, buffers[b].inner, f)
          /\ buffers' = Append([buffers EXCEPT ![b] = Flushed(buffers[b])],
                               DerivedBuffer(Flushed(buffers[b]), Len(buffers) + 1))
          /\ lastBuf' = [op |-> "with", b |-> b, backlog |-> buffers[b].backlog,
                         since |-> buffers[b].since, before |-> Len(received), f |-> f,
                         flushed |-> TRUE, res |-> Len(buffers) + 1]
  /\ UNCHANGED nextRec

\* The operation has returned to its caller.
BufferReturn ==
  /\ lastBuf # NoBuf
  /\ lastBuf' = NoBuf
  /\ UNCHANGED <<buffers, received, nextRec>>

\* -------------------------------------------- ensurePrintableValueIsEmpty
\* A Go value handed to the logger as an attribute value: its dynamic type t
\* and what the function looks at.  Texts are sequences of tokens.
\*   s      the string, or what String() returns
\*   n      the number
\*   isnil  a nil chan or func
\*   zero   reflect.Value.IsZero of a composite
\*   enc    what json.Encoder.Encode does with a composite: the JSON text it
\*          writes, or "error", or "panic" (a MarshalJSON inside panics)
\*   panics String() or Error() panics
MaxInt == 2 ^ (UintBits - 1) - 1

GoVal(t, s, n, isnil, zero, enc, panics) ==
  [t |-> t, s |-> s, n |-> n, isnil |-> isnil, zero |-> zero, enc |-> enc, panics |-> panics]

NoGo == GoVal("none", <<>>, 0, FALSE, FALSE, "", FALSE)

EncTexts == {"\"\"", "[]", "{}", "null", "[1]"}

GoVals ==
  {GoVal("nil", <<>>, 0, TRUE, TRUE, "", FALSE)}
  \cup {GoVal("string", s, 0, FALSE, FALSE, "", FALSE) : s \in {<<>>, <<"x">>}}
  \cup {GoVal("uint64", <<>>, n, FALSE, FALSE, "", FALSE) : n \in 0..(2 ^ UintBits - 1)}
  \cup {GoVal("int", <<>>, 0, FALSE, FALSE, "", FALSE)}
  \cup {GoVal("bool", <<>>, 0, FALSE, FALSE, "", FALSE)}
  \cup {GoVal("error", <<"e">>, 0, FALSE, FALSE, "", p) : p \in BOOLEAN}
  \cup {GoVal("json.Marshaler", <<>>, 0, FALSE, FALSE, "", FALSE)}
  \cup {GoVal("fmt.Stringer", s, 0, FALSE, FALSE, "", p) : s \in {<<>>, <<"x">>}, p \in BOOLEAN}
  \cup {GoVal("complex128", <<>>, 0, FALSE, FALSE, "", FALSE)}
  \cup {GoVal(t, <<>>, 0, b, FALSE, "", FALSE) : t \in {"chan", "func"}, b \in BOOLEAN}
  \cup {GoVal("composite", <<>>, 0, FALSE, z, e, FALSE) :
          z \in BOOLEAN, e \in {"\"\"", "{}", "error", "panic"}}
  \cup {GoVal("composite", <<>>, 0, FALSE, TRUE, "null", FALSE)}
  \cup {GoVal("composite", <<>>, 0, FALSE, FALSE, e, FALSE) : e \in {"[]", "[1]"}}

\* A slog.Value: its kind, the text of a string, the number, the Go value
\* of a KindAny.
Val(kind, text, num, any) == [kind |-> kind, text |-> text, num |-> num, any |-> any]

\* slog.AnyValue, which slog.Any and the key-value arguments of a log call
\* go through: a string, a bool and the numbers get their own kind, all the
\* rest is of KindAny.
AnyValue(g) ==
  CASE g.t = "string" -> Val("String", g.s, 0, NoGo)
    [] g.t = "uint64" -> Val("Uint64", <<>>, g.n, NoGo)
    [] g.t = "int"    -> Val("Int64", <<>>, g.n, NoGo)
    [] g.t = "bool"   -> Val("Bool", <<>>, 0, NoGo)
    [] OTHER          -> Val("Any", <<>>, 0, g)

\* What a run of the function body leaves: the result isEmpty, the local ok,
\* *value, and whether the body panicked.
Out(isEmpty, ok, value, panicked) ==
  [isEmpty |-> isEmpty, ok |-> ok, value |-> value, panicked |-> panicked]

\* What the caller gets: the result, *value, and whether a panic left the
\* function.
Res(isEmpty, value, crashed) == [isEmpty |-> isEmpty, value |-> value, crashed |-> crashed]

\* (variant) no recover: a panic goes on to the caller
DeferredNoRecover(o) ==
  Res(o.isEmpty,
      IF ~o.isEmpty /\ ~o.ok THEN Val("String", <<"%v">>, 0, NoGo) ELSE o.value,
      o.panicked)

\* The deferred function: recover, and replace *value by fmt.Sprintf("%v")
\* of it unless the value is empty or was handled.
Deferred(o) ==
  LET ok == o.ok /\ ~o.panicked
  IN  Res(o.isEmpty,
          IF ~o.isEmpty /\ ~ok THEN Val("String", <<"%v">>, 0, NoGo) ELSE o.value,
          FALSE)

\* The type switch on value.Any() of a value of KindAny, for the types that
\* need no serialization.
Switch(v) ==
  LET g == v.any
  IN  CASE g.t = "nil"     -> Out(TRUE, TRUE, v, FALSE)
        [] g.t = "string"  -> Out(g.s = <<>>, TRUE, Val("String", g.s, 0, NoGo), FALSE)
        [] g.t = "error"   -> IF g.panics THEN Out(FALSE, TRUE, v, TRUE)
                              ELSE Out(FALSE, TRUE, Val("String", g.s, 0, NoGo), FALSE)
        [] g.t = "json.Marshaler" -> Out(FALSE, TRUE, v, FALSE)
        [] g.t = "fmt.Stringer" -> IF g.panics THEN Out(FALSE, TRUE, v, TRUE)
                              ELSE Out(g.s = <<>>, TRUE, Val("String", g.s, 0, NoGo), FALSE)
        [] g.t = "bool"    -> Out(FALSE, TRUE, Val("Bool", <<>>, 0, NoGo), FALSE)
        [] g.t = "int"     -> Out(FALSE, TRUE, Val("Int64", <<>>, g.n, NoGo), FALSE)
        [] g.t = "uint64"  -> Out(FALSE, TRUE,
                                  \* if x > 1<<63 { string } else { slog.Uint64Value(x) }
                                  IF g.n > MaxInt + 1 THEN Val("String", <<"decimal">>, g.n, NoGo)
                                  ELSE Val("Uint64", <<>>, g.n, NoGo),
                                  FALSE)
        [] g.t = "complex128" -> Out(FALSE, TRUE, Val("String", <<"complex">>, 0, NoGo), FALSE)
        [] g.t \in {"chan", "func"} -> Out(g.isnil, FALSE, v, FALSE)

\* jsonMarshalableEnc.Encode(v): the text and the newline that ends every
\* value, written into the buffer; nothing on an error or a panic
Encode(g) == IF g.enc \in EncTexts THEN <<g.enc, "\n">> ELSE <<>>

\* The default case after Encode, b being jsonMarshalableBuf.String(): on
\* success the text is compared with the empty literals and else becomes
\* the value; on an error the result is rv.IsZero().
AfterEncode(v, b) ==
  LET g == v.any
  IN  CASE g.enc = "panic" -> Out(FALSE, FALSE, v, TRUE)
        [] g.enc = "error" -> Out(g.zero, FALSE, v, FALSE)
        [] OTHER ->
             IF b \in {<<"\"\"">>, <<"[]">>, <<"{}">>, <<"null">>}
             THEN Out(TRUE, TRUE, v, FALSE)
             ELSE Out(FALSE, TRUE, Val("String", b, 0, NoGo), FALSE)

Norms == {"n1", "n2"}

NIdle == [pc |-> "idle", in |-> NoGo, val |-> Val("none", <<>>, 0, NoGo),
          res |-> Res(FALSE, Val("none", <<>>, 0, NoGo), FALSE)]

NormIdle == nth = [t \in Norms |-> NIdle] /\ nmu = "free" /\ nbuf = <<>>

\* ensurePrintableValueIsEmpty(&a.Value) is called for an attribute whose
\* value slog made of g; it returns at once for a value that is not of
\* KindAny, runs the type switch, or goes on to serialize a composite.
NormCall(t, g) ==
  /\ nth[t].pc = "idle"
  /\ LET v == AnyValue(g)
     IN  nth' = [nth EXCEPT ![t] =
           IF v.kind # "Any"
           THEN [pc |-> "done", in |-> g, val |-> v, res |-> Res(FALSE, v, FALSE)]
           ELSE IF g.t = "composite"
           THEN [pc |-> "lock", in |-> g, val |-> v, res |-> NIdle.res]
           ELSE [pc |-> "done", in |-> g, val |-> v, res |-> Deferred(Switch(v))]]
  /\ UNCHANGED <<nmu, nbuf>>

\* jsonMarshalableMu.Lock()
NormLock(t) ==
  /\ nth[t].pc = "lock"
  /\ nmu = "free"
  /\ nmu' = t
  /\ nth' = [nth EXCEPT ![t].pc = "encode"]
  /\ UNCHANGED nbuf

\* jsonMarshalableBuf.Reset(); jsonMarshalableEnc.Encode(v)
NormEncode(t) ==
  /\ nth[t].pc = "encode"
  /\ nbuf' = Encode(nth[t].in)
  /\ nth' = [nth EXCEPT ![t].pc = "encoded"]
  /\ UNCHANGED nmu

\* (variant) the mutex is unlocked by a statement after the switch on the
\* text, which a failed or panicking Encode does not reach
UnlockOnSuccess(holder, t, g) == IF holder = t /\ g.enc \in EncTexts THEN "free" ELSE holder

\* the deferred jsonMarshalableMu.Unlock()
Unlock(holder, t, g) == IF holder = t THEN "free" ELSE holder

\* The rest of the default case and the return: the text is read from the
\* buffer, the deferred Unlock runs, then the deferred function.
NormReturn(t) ==
  /\ nth[t].pc = "encoded"
  /\ nth' = [nth EXCEPT ![t].pc = "done",
                        ![t].res = Deferred(AfterEncode(nth[t].val, nbuf))]
  /\ nmu' = Unlock(nmu, t, nth[t].in)
  /\ UNCHANGED nbuf

\* The caller has used the result.
NormDone(t) ==
  /\ nth[t].pc = "done"
  /\ nth' = [nth EXCEPT ![t] = NIdle]
  /\ UNCHANGED <<nmu, nbuf>>

\* ------------------------------------------- ConsoleHandler: the time field
\* Texts are sequences of characters.
Digit(d) == <<"0", "1", "2", "3", "4", "5", "6", "7", "8", "9">>[d + 1]
Digits2(n) == <<Digit(n \div 10), Digit(n % 10)>>
Digits3(n) == <<Digit(n \div 100), Digit((n \div 10) % 10), Digit(n % 10)>>

TimeIdle == rtime = [h |-> 0, m |-> 0, s |-> 0, ms |-> 0] /\ tfield = <<>>

\* the fraction ".999" of a time layout: the digits without their trailing
\* zeros, and no decimal point if no digit is left
RECURSIVE TrimZeros(_)
TrimZeros(ds) ==
  IF ds # <<>> /\ ds[Len(ds)] = "0" THEN TrimZeros(SubSeq(ds, 1, Len(ds) - 1)) ELSE ds

\* r.Time.AppendFormat(tmp[:0], "15:04:05.999")
AppendFormat(t) ==
  LET ds == TrimZeros(Digits3(t.ms))
  IN  Digits2(t.h) \o <<":">> \o Digits2(t.m) \o <<":">> \o Digits2(t.s)
        \o (IF ds = <<>> THEN <<>> ELSE <<".">> \o ds)

\* for n := len(DefaultTimeFormat) - h.buf.Len(); n > 0; n-- { WriteByte('0') }
RECURSIVE PadZeros(_, _)
PadZeros(b, n) == IF n > 0 THEN PadZeros(Append(b, "0"), n - 1) ELSE b

\* h.Handle(ctx, r) up to the blank after the time, with TimeFormat ==
\* DefaultTimeFormat; len(DefaultTimeFormat), of "15:04:05.999", is 12
ConsoleTime ==
  /\ tfield = <<>>
  /\ LET b == AppendFormat(rtime)
     IN  tfield' = PadZeros(b, 12 - Len(b))
  /\ UNCHANGED rtime

\* ------------------------------------------------ loghttp.LoggingTransport
\* The 1000 of RoundTrip is scaled to MaxSeen.
Exchanges == 1..(MaxSeen + 1)
Callers == {"g1", "g2"}

\* Transport(tr, opts...): seen is a new, empty map
Transport == [seen |-> [nil |-> FALSE, keys |-> {}], size |-> 0]
\* LoggingTransport{Transport: tr}: seen is nil
LiteralTransport == [seen |-> [nil |-> TRUE, keys |-> {}], size |-> 0]

RTIdle == [pc |-> "idle", ex |-> 0, enabled |-> FALSE, at |-> 0]

HTTPIdle ==
  /\ ltr = LiteralTransport
  /\ rt = [t \in Callers |-> RTIdle]
  /\ logOut = <<>>
  /\ window = <<>>
  /\ clears = <<>>

\* h := sha256.New(); h.Write(reqBytes); h.Write(respBytes); h.Sum(nil):
\* the digest of the exchange, returned as a []byte, a slice
Sum(e) == [slice |-> TRUE, bytes |-> e]

\* RoundTrip up to tr.RoundTrip(r): the logger's level decides enabled, the
\* inner transport performs the exchange e
RoundTripCall(t, e, en) ==
  /\ rt[t].pc = "idle"
  /\ Len(logOut) + Cardinality({u \in Callers : rt[u].pc # "idle"}) < MaxRoundTrips
  /\ rt' = [rt EXCEPT ![t] = [pc |-> "sent", ex |-> e, enabled |-> en, at |-> 0]]
  /\ UNCHANGED <<ltr, logOut, window, clears>>

\* if !enabled { return resp, err }
RoundTripDisabled(t) ==
  /\ rt[t].pc = "sent"
  /\ ~rt[t].enabled
  /\ rt' = [rt EXCEPT ![t].pc = "done", ![t].at = Len(clears)]
  /\ UNCHANGED <<ltr, logOut, window, clears>>

\* the block if s.seen != nil { ... }: LoadOrStore of the digest, and for a
\* new key size.Add(1), over the limit Clear and Store. The key is the slice
\* that Sum returns; a map key must be comparable and a slice is not: hashing
\* it panics in LoadOrStore ("hash of unhashable type []uint8") and RoundTrip
\* ends there.
RoundTripSeen(t) ==
  /\ rt[t].pc = "sent"
  /\ rt[t].enabled
  /\ LET key == Sum(rt[t].ex)
     IN  IF ltr.seen.nil
           THEN /\ rt' = [rt EXCEPT ![t].pc = "log"]
                /\ UNCHANGED <<ltr, logOut, window, clears>>
         ELSE IF key.slice
           THEN /\ rt' = [rt EXCEPT ![t].pc = "panicked", ![t].at = Len(clears)]
                /\ UNCHANGED <<ltr, logOut, window, clears>>
         ELSE IF key \in ltr.seen.keys
           THEN /\ rt' = [rt EXCEPT ![t].pc = "done", ![t].at = Len(clears)]
                /\ UNCHANGED <<ltr, logOut, window, clears>>
         ELSE IF ltr.size + 1 > MaxSeen
           THEN /\ ltr' = [seen |-> [nil |-> FALSE, keys |-> {key}], size |-> ltr.size + 1]
                /\ clears' = Append(clears, Cardinality(ltr.seen.keys \cup {key}))
                /\ window' = <<>>
                /\ rt' = [rt EXCEPT ![t].pc = "log"]
                /\ UNCHANGED logOut
         ELSE /\ ltr' = [seen |-> [nil |-> FALSE, keys |-> ltr.seen.keys \cup {key}],
                         size |-> ltr.size + 1]
              /\ rt' = [rt EXCEPT ![t].pc = "log"]
              /\ UNCHANGED <<logOut, window, clears>>

\* if !skip { logger.Log(ctx, level, "RoundTrip", ...) }; return resp, err
RoundTripLog(t) ==
  /\ rt[t].pc = "log"
  /\ logOut' = Append(logOut, rt[t].ex)
  /\ window' = Append(window, rt[t].ex)
  /\ rt' = [rt EXCEPT ![t].pc = "done", ![t].at = Len(clears)]
  /\ UNCHANGED <<ltr, clears>>

\* the caller has the result, or has recovered the panic
RoundTripReturn(t) ==
  /\ rt[t].pc \in {"done", "panicked"}
  /\ rt' = [rt EXCEPT ![t] = RTIdle]
  /\ UNCHANGED <<ltr, logOut, window, clears>>

\* ---------------------------------------------------------- specifications
\* Spec: NewMultiHandler() and two sinks, each on a destination of its own
\* (slog.NewJSONHandler / NewConsoleHandler at Debug and at Warn), and one
\* &slog.LevelVar{} (at LevelInfo).
CowIdle ==
  /\ arrays = <<>>
  /\ ws = NilSlice
  /\ wr = [t \in Writers |-> WIdle]
  /\ rd = [t \in Readers |-> RIdle]
  /\ nextId = 1
  /\ lists = {<<>>}
  /\ returned = {}

LoggerIdle == loggers = <<>>

RenderIdle == rattrs = <<>> /\ rline = NoLine /\ rh = <<>>

ConsoleIdle ==
  /\ ch = <<>>
  /\ store = <<>>
  /\ th = [t \in Goroutines |-> TIdle]
  /\ out = <<>>
  /\ nrec = 0

Init ==
  /\ LoggerIdle
  /\ BufferIdle
  /\ NormIdle
  /\ TimeIdle
  /\ HTTPIdle
  /\ RenderIdle
  /\ CowIdle
  /\ ConsoleIdle
  /\ heap = <<MultiObj(<<>>, 0, 0),
              SinkObj(ConstLevel(LevelDebug), 1, 0, 0),
              SinkObj(ConstLevel(LevelWarn), 2, 0, 0)>>
  /\ levelVars = <<LevelInfo>>
  /\ lastCall = NoCall
  /\ lastSet = NoSet

Next ==
  /\ \/ \E lv \in GateLevels, h \in 0..Len(heap) : NewLevel(lv, h, MaxHandlers)
     \/ \E h \in Ids(heap), l \in SetLevels : SetLevel(h, l)
     \/ \E h \in Ids(heap) : With(h, MaxHandlers)
     \/ \E m \in Ids(heap), w \in Ids(heap) : Add(m, w)
     \/ \E m \in Ids(heap) : Swap(m, <<>>)
     \/ \E h \in Ids(heap), l \in Levels : CallEnabled(h, l)
     \/ \E m \in Ids(heap), l \in Levels, f \in SUBSET Dests : CallHandle(m, l, f)
     \/ Return
  /\ UNCHANGED <<cvars, xvars, lvars, rvars, bvars, nvars, tvars, hvars>>

vars == <<gvars, cvars, xvars, lvars, rvars, bvars, nvars, tvars, hvars>>
Spec == Init /\ [][Next]_vars

\* SpecGate: one sink and a LevelHandler over it, constructed with a constant
\* level or with the LevelVar; gates are derived, rebuilt and re-levelled.
GateInit ==
  /\ LoggerIdle
  /\ BufferIdle
  /\ NormIdle
  /\ TimeIdle
  /\ HTTPIdle
  /\ RenderIdle
  /\ CowIdle
  /\ ConsoleIdle
  /\ \E lv \in GateLevels :
       heap = <<SinkObj(ConstLevel(LevelDebug), 1, 0, 0), LevelObj(lv, 1, 0, 0)>>
  /\ levelVars = <<LevelInfo>>
  /\ lastCall = NoCall
  /\ lastSet = NoSet

GateNext ==
  /\ \/ \E lv \in GateLevels, h \in 0..Len(heap) : NewLevel(lv, h, MaxGateHandlers)
     \/ \E h \in Ids(heap), l \in SetLevels : SetLevel(h, l)
     \/ \E h \in Ids(heap) : With(h, MaxGateHandlers)
     \/ \E h \in Ids(heap), l \in Levels : CallEnabled(h, l)
     \/ \E h \in 0..Len(heap), l \in {LevelDebug, LevelError}, f \in {{}, Dests} : CallHandleGate(h, l, f)
     \/ Return
  /\ UNCHANGED <<cvars, xvars, lvars, rvars, bvars, nvars, tvars, hvars>>

SpecGate == GateInit /\ [][GateNext]_vars

\* SpecCow: one MultiHandler after NewMultiHandler() and InitMembers Adds made
\* one after the other, then used by the writer and reader goroutines at once.
GraphIdle ==
  /\ heap = <<>>
  /\ levelVars = <<>>
  /\ lastCall = NoCall
  /\ lastSet = NoSet

CowInit ==
  /\ LoggerIdle
  /\ BufferIdle
  /\ NormIdle
  /\ TimeIdle
  /\ HTTPIdle
  /\ RenderIdle
  /\ GraphIdle
  /\ ConsoleIdle
  /\ \E n \in {InitMembers} :
       /\ arrays = BuildAdds(n).arrs
       /\ ws = BuildAdds(n).sl
       /\ nextId = n + 1
       /\ lists = {Contents(BuildAdds(k).arrs, BuildAdds(k).sl) : k \in 0..n}
       /\ returned = 1..n
  /\ wr = [t \in Writers |-> WIdle]
  /\ rd = [t \in Readers |-> RIdle]

CowNext ==
  /\ \/ \E t \in Writers : AddLoad(t)
     \/ \E t \in Writers : AddAppend(t)
     \/ \E t \in Writers : AddStore(t)
     \/ \E t \in Writers : SwapStore(t)
     \/ \E t \in Readers : HandleLoad(t)
     \/ \E t \in Readers : HandleNext(t)
     \/ \E t \in Readers : HandleReturn(t)
  /\ UNCHANGED <<gvars, xvars, lvars, rvars, bvars, nvars, tvars, hvars>>

SpecCow == CowInit /\ [][CowNext]_vars

\* SpecConsole: one ConsoleHandler from NewConsoleHandler(level, w), handlers
\* derived from it, and goroutines logging through any of them.
ConsoleInit ==
  /\ LoggerIdle
  /\ BufferIdle
  /\ NormIdle
  /\ TimeIdle
  /\ HTTPIdle
  /\ RenderIdle
  /\ GraphIdle
  /\ CowIdle
  /\ ch = <<ConsoleObj(FALSE, 0, 0, 0)>>
  /\ store = <<>>
  /\ th = [t \in Goroutines |-> TIdle]
  /\ out = <<>>
  /\ nrec = 0

ConsoleNext ==
  /\ \/ \E h \in 1..Len(ch) : ConsoleWith(h)
     \/ \E t \in Goroutines, h \in 1..Len(ch), a \in BOOLEAN : HCall(t, h, a)
     \/ \E t \in Goroutines : HLock(t)
     \/ \E t \in Goroutines : HHead(t)
     \/ \E t \in Goroutines : HAttrs(t)
     \/ \E t \in Goroutines : HWrite(t)
     \/ \E t \in Goroutines : HUnlock(t)
  /\ UNCHANGED <<gvars, cvars, lvars, rvars, bvars, nvars, tvars, hvars>>

SpecConsole == ConsoleInit /\ [][ConsoleNext]_vars

\* FairConsole: every goroutine that is inside Handle and can take a step
\* eventually takes one.
FairConsole ==
  SpecConsole /\ \A t \in Goroutines : WF_vars(HSteps(t) /\ UNCHANGED <<gvars, cvars, lvars, rvars, bvars, nvars, tvars, hvars>>)

\* SpecLogger: a Logger from New(w), w a terminal (ConsoleHandler) or not
\* (customSourceHandler over the JSON handler), both at InfoLevel, under a
\* LevelHandler on a fresh *slog.LevelVar; Loggers are derived from it, set
\* to each level and logged through at each level.
LoggerInit ==
  /\ RenderIdle
  /\ BufferIdle
  /\ NormIdle
  /\ TimeIdle
  /\ HTTPIdle
  /\ CowIdle
  /\ ConsoleIdle
  /\ \E term \in BOOLEAN :
       heap = <<IF term THEN SinkObj(ConstLevel(LevelInfo), 1, 0, 0)
                       ELSE SourceObj(ConstLevel(LevelInfo), 1, 0, 0),
               LevelObj(VarLevel(1), 1, 0, 0)>>
  /\ levelVars = <<LevelInfo>>
  /\ loggers = <<2>>
  /\ lastCall = NoCall
  /\ lastSet = NoSet

LoggerNext ==
  /\ \/ \E g \in 1..Len(loggers), l \in Levels : LoggerSetLevel(g, l)
     \/ \E g \in 1..Len(loggers), l \in Levels : LoggerLog(g, l)
     \/ \E g \in 1..Len(loggers) : LoggerWith(g)
     \/ \E g \in 1..Len(loggers), off \in {1, 4} : LoggerV(g, off)
     \/ \E g \in 1..Len(loggers), lv \in GateLevels : LoggerNewLevel(lv, g)
     \/ Return /\ UNCHANGED loggers
  /\ UNCHANGED <<cvars, xvars, rvars, bvars, nvars, tvars, hvars>>

SpecLogger == LoggerInit /\ [][LoggerNext]_vars

\* SpecRender: a ConsoleHandler from NewConsoleHandler renders records with
\* up to MaxAttrs attributes.
RenderInit ==
  /\ GraphIdle
  /\ CowIdle
  /\ ConsoleIdle
  /\ LoggerIdle
  /\ BufferIdle
  /\ NormIdle
  /\ TimeIdle
  /\ HTTPIdle
  /\ rline = NoLine
  /\ rh = <<RenderObj(<<>>, 0, <<>>)>>
  /\ \E n \in 0..MaxAttrs : rattrs \in [1..n -> Attrs]

RenderNext ==
  /\ \/ \E h \in 1..Len(rh) : ConsoleRender(h)
  /\ UNCHANGED <<gvars, cvars, xvars, lvars, bvars, nvars, tvars, hvars>>

SpecRender == RenderInit /\ [][RenderNext]_vars

\* SpecDerive: ConsoleHandlers are derived with WithAttrs from the one
\* NewConsoleHandler made, and one of them renders a record.
DeriveInit ==
  /\ GraphIdle
  /\ CowIdle
  /\ ConsoleIdle
  /\ LoggerIdle
  /\ BufferIdle
  /\ NormIdle
  /\ TimeIdle
  /\ HTTPIdle
  /\ rline = NoLine
  /\ rh = <<RenderObj(<<>>, 0, <<>>)>>
  /\ rattrs \in {<<>>, <<[key |-> "a", val |-> "str"]>>, <<[key |-> "", val |-> "str_empty"]>>,
                  <<[key |-> "a", val |-> "any_nil"]>>}

DeriveNext ==
  /\ \/ \E h \in 1..Len(rh), as \in {<<>>, <<[key |-> "a", val |-> "int0"]>>, <<[key |-> "", val |-> "str_empty"]>>} : ConsoleWithAttrs(h, as)
     \/ \E h \in 1..Len(rh) : ConsoleRender(h)
  /\ UNCHANGED <<gvars, cvars, xvars, lvars, bvars, nvars, tvars, hvars>>

SpecDerive == DeriveInit /\ [][DeriveNext]_vars

\* SpecBuffer: one Batching Buffer with a size threshold of up to MaxSize
\* and with or without an interval; records are handled, the backlog is
\* flushed by hand and by the timer, and Buffers are derived.
BufferInit ==
  /\ NormIdle
  /\ TimeIdle
  /\ HTTPIdle
  /\ GraphIdle
  /\ CowIdle
  /\ ConsoleIdle
  /\ LoggerIdle
  /\ RenderIdle
  /\ \E size \in 0..MaxSize, interval \in {0, 1} : buffers = <<NewBuffer(1, size, interval)>>
  /\ received = <<>>
  /\ nextRec = 1
  /\ lastBuf = NoBuf

BufferNext ==
  /\ \/ \E b \in 1..Len(buffers), f \in 0..MaxRecords : BufferHandle(b, f)
     \/ \E b \in 1..Len(buffers), f \in 0..MaxRecords : BufferFlush("user", b, f)
     \/ \E b \in 1..Len(buffers), f \in 0..MaxRecords : BufferFlush("tick", b, f)
     \/ \E b \in 1..Len(buffers), e \in BOOLEAN, f \in 0..MaxRecords : BufferWith(b, e, f)
     \/ BufferReturn
  /\ UNCHANGED <<gvars, cvars, xvars, lvars, rvars, nvars, tvars, hvars>>

SpecBuffer == BufferInit /\ [][BufferNext]_vars

\* SpecNorm: goroutines call ensurePrintableValueIsEmpty at the same time,
\* each for the attribute value of a log call.
NormInit ==
  /\ TimeIdle
  /\ HTTPIdle
  /\ GraphIdle
  /\ CowIdle
  /\ ConsoleIdle
  /\ LoggerIdle
  /\ RenderIdle
  /\ BufferIdle
  /\ nth = [t \in Norms |-> NIdle]
  /\ nmu = "free"
  /\ nbuf = <<>>

NormNext ==
  /\ \/ \E t \in Norms, g \in GoVals : NormCall(t, g)
     \/ \E t \in Norms : NormLock(t)
     \/ \E t \in Norms : NormEncode(t)
     \/ \E t \in Norms : NormReturn(t)
     \/ \E t \in Norms : NormDone(t)
  /\ UNCHANGED <<gvars, cvars, xvars, lvars, rvars, bvars, tvars, hvars>>

SpecNorm == NormInit /\ [][NormNext]_vars

\* SpecTime: a ConsoleHandler writes the time field of a record whose time
\* is any millisecond of some seconds of the day.
TimeInit ==
  /\ HTTPIdle
  /\ GraphIdle
  /\ CowIdle
  /\ ConsoleIdle
  /\ LoggerIdle
  /\ RenderIdle
  /\ BufferIdle
  /\ NormIdle
  /\ rtime \in [h : {0, 23}, m : {0, 59}, s : {5}, ms : 0..999]
  /\ tfield = <<>>

TimeNext ==
  /\ \/ ConsoleTime
  /\ UNCHANGED <<gvars, cvars, xvars, lvars, rvars, bvars, nvars, hvars>>

SpecTime == TimeInit /\ [][TimeNext]_vars

\* SpecHTTP: goroutines send exchanges through one LoggingTransport, built by
\* Transport or written as a literal.
HTTPInit ==
  /\ GraphIdle
  /\ CowIdle
  /\ ConsoleIdle
  /\ LoggerIdle
  /\ RenderIdle
  /\ BufferIdle
  /\ NormIdle
  /\ TimeIdle
  /\ ltr \in {Transport, LiteralTransport}
  /\ rt = [t \in Callers |-> RTIdle]
  /\ logOut = <<>>
  /\ window = <<>>
  /\ clears = <<>>

HTTPNext ==
  /\ \/ \E t \in Callers, e \in Exchanges, en \in BOOLEAN : RoundTripCall(t, e, en)
     \/ \E t \in Callers : RoundTripDisabled(t)
     \/ \E t \in Callers : RoundTripSeen(t)
     \/ \E t \in Callers : RoundTripLog(t)
     \/ \E t \in Callers : RoundTripReturn(t)
  /\ UNCHANGED <<gvars, cvars, xvars, lvars, rvars, bvars, nvars, tvars>>

SpecHTTP == HTTPInit /\ [][HTTPNext]_vars

\* ------------------------------------------------------------------ claims
\* How often x occurs in the sequence q.
Count(q, x) == Cardinality({k \in 1..Len(q) : q[k] = x})

\* The destinations a member writes to when it is handed a record.
RECURSIVE DestsOf(_, _)
DestsOf(hp, h) ==
  CASE h = 0 -> {}
    [] hp[h].kind = "sink"  -> {hp[h].dest}
    [] hp[h].kind = "source" -> {hp[h].dest}
    [] hp[h].kind = "level" -> DestsOf(hp, hp[h].handler)
    [] hp[h].kind = "multi" -> UNION {DestsOf(hp, hp[h].ws[k]) : k \in 1..Len(hp[h].ws)}

\* The members of the called MultiHandler, and those enabled for the record.
CalledWs == heap[lastCall.h].ws
EnabledAt(i) == HandlerEnabled(heap, levelVars, CalledWs[i], lastCall.level)
ErrAt(i) == HandlerHandle(heap, levelVars, CalledWs[i], lastCall.level, lastCall.fail).err
FirstErrOf(S) ==
  LET failing == {i \in S : ErrAt(i) # 0}
  IN  IF failing = {} THEN 0
      ELSE ErrAt(CHOOSE i \in failing : \A j \in failing : i <= j)

C2_OnlyEnabledMembersReceive ==
  lastCall.op = "Handle" =>
    \A d \in Dests :
      Count(lastCall.written, d) =
        Cardinality({i \in 1..Len(CalledWs) :
                       EnabledAt(i) /\ d \in DestsOf(heap, CalledWs[i])})

\* C2 witness: a gate above the record's level receives nothing while the
\* other member receives the record.
C2_Witness ==
  /\ lastCall.op = "Handle"
  /\ Len(CalledWs) = 2
  /\ \E i, j \in 1..2 :
       /\ heap[CalledWs[i]].kind = "level"
       /\ ~EnabledAt(i)
       /\ DestsOf(heap, CalledWs[i]) # {}
       /\ EnabledAt(j)
       /\ DestsOf(heap, CalledWs[i]) \cap DestsOf(heap, CalledWs[j]) = {}
       /\ Len(lastCall.written) = 1
       /\ lastCall.written[1] \in DestsOf(heap, CalledWs[j])

\* C3: MultiHandler.Enabled is true iff some member is enabled for the level
\* (never for an empty list).
C3_EnabledIffAnyMember ==
  (lastCall.op = "Enabled" /\ heap[lastCall.h].kind = "multi") =>
    lastCall.res = (\E i \in 1..Len(CalledWs) : EnabledAt(i))

\* C3 witness: the first member is disabled, the second enabled.
C3_Witness ==
  /\ lastCall.op = "Enabled"
  /\ heap[lastCall.h].kind = "multi"
  /\ Len(CalledWs) = 2
  /\ ~EnabledAt(1)
  /\ EnabledAt(2)
  /\ lastCall.res

\* C4: LevelHandler.Enabled(level) is true iff level >= threshold, and the
\* call changes neither a handler nor a LevelVar.
C4_GateEnabledIffAtLeastThreshold ==
  /\ [](  (lastCall.op = "Enabled" /\ heap[lastCall.h].kind = "level")
          => lastCall.res = (lastCall.level >= LevelOf(levelVars, heap[lastCall.h].level)))
  /\ [][lastCall'.op = "Enabled" => (heap' = heap /\ levelVars' = levelVars)]_vars

\* C4 witness: a record exactly at the threshold is enabled on a gate whose
\* threshold was set.
C4_Witness ==
  /\ lastCall.op = "Enabled"
  /\ heap[lastCall.h].kind = "level"
  /\ lastSet.h = lastCall.h
  /\ lastCall.level = LevelOf(levelVars, heap[lastCall.h].level)
  /\ lastCall.res

\* The handlers derived from h by WithAttrs / WithGroup, directly or not.
RECURSIVE DerivedFrom(_, _, _)
DerivedFrom(hp, d, h) ==
  IF d = 0 THEN FALSE
  ELSE IF hp[d].from = h THEN TRUE
  ELSE DerivedFrom(hp, hp[d].from, h)

\* C5: after SetLevel(L) on a gate, the gate and every gate derived from it
\* decide with threshold L.
C5_SetLevelReachesDerived ==
  lastSet.h # 0 =>
    \A d \in Ids(heap) :
      (d = lastSet.h \/ (heap[d].kind = "level" /\ DerivedFrom(heap, d, lastSet.h))) =>
        \A l \in Levels :
          LevelHandlerEnabled(levelVars, heap[d], l) = (l >= lastSet.level)

\* C6: a Handle call that runs while Add and Swap calls are in progress
\* iterates over a member list that was stored in ws, or that one of the Add
\* calls built, as a whole.
C6_IteratesWholeList ==
  \A t \in Readers : rd[t].pc = "done" => rd[t].visited \in lists

\* C7: a Handle call that starts after Add(s) has returned (and no Swap
\* since) hands the record to s.
C7_AddedMemberReceives ==
  \A t \in Readers :
    rd[t].pc = "done" =>
      rd[t].must \subseteq {rd[t].visited[k] : k \in 1..Len(rd[t].visited)}

\* Goroutine t is between Lock and Unlock of its handler: it assembles the
\* line in the handler's buffers or hands it to the destination.
InHandle(t) == th[t].pc \in {"head", "attrs", "write", "inwrite"}
Storage(h) == {ch[h].buf, ch[h].attrBuf} \ {0}

\* Handle has been called on another handler whose buffers point at the
\* storage of h's buffers.
Interfered(h) ==
  \E g \in 1..Len(ch) :
    /\ g # h
    /\ Storage(g) \cap Storage(h) # {}
    /\ \/ \E t \in Goroutines : th[t].h = g
       \/ \E k \in 1..Len(out) : out[k].h = g

\* The record r has reached the point where Handle has called Write.
Written(r) == \A t \in Goroutines : th[t].rec = r => th[t].pc = "inwrite"

\* C8: for Handle calls on one ConsoleHandler, no two are between Lock and
\* Unlock together (so neither their writes nor their use of the buffers
\* overlap), every record gets exactly one Write, and that Write carries the
\* record's whole line (its message, and its attributes if it has any) as
\* long as the calls are on that one handler, i.e. no Handle was called on a
\* copy that uses the same buffer storage.
C8_OneHandlerSerialized ==
  /\ \A t1, t2 \in Goroutines :
       (t1 # t2 /\ InHandle(t1) /\ InHandle(t2)) => th[t1].h # th[t2].h
  /\ \A r \in 1..nrec :
       Cardinality({k \in 1..Len(out) : out[k].rec = r}) = IF Written(r) THEN 1 ELSE 0
  /\ \A k \in 1..Len(out) :
       ~Interfered(out[k].h) =>
         out[k].line = Line(out[k].rec, IF out[k].attrs THEN out[k].rec ELSE 0)

\* C8 witness: a goroutine waits for the mutex of the handler on which
\* another one is writing its line, with attributes, to the destination.
C8_Witness ==
  \E t1, t2 \in Goroutines :
    /\ th[t1].pc = "inwrite"
    /\ th[t1].attrs
    /\ th[t2].pc = "lock"
    /\ th[t2].h = th[t1].h
    /\ ~Interfered(th[t1].h)
    /\ out[Len(out)].line = Line(th[t1].rec, th[t1].rec)

\* C9: a Handle call on a ConsoleHandler and one on a handler derived from it
\* are never inside Write together, nor between Lock and Unlock together
\* while their buffers share storage.
C9_DerivedHandlersExclude ==
  \A t1, t2 \in Goroutines :
    (t1 # t2 /\ InHandle(t1) /\ InHandle(t2)) =>
      /\ ~(th[t1].pc = "inwrite" /\ th[t2].pc = "inwrite")
      /\ Storage(th[t1].h) \cap Storage(th[t2].h) = {}

\* C10: every Handle call eventually returns.
C10_HandleReturns ==
  \A t \in Goroutines : (th[t].pc = "lock") ~> (th[t].pc = "idle")

\* C11: for the Logger from New(w) (its handler is heap[2]), after
\* SetLevel(L) a record logged at level X is written to w exactly once if
\* X >= L and not at all otherwise.
C11_WrittenIffAtLeastSetLevel ==
  (lastCall.op = "log" /\ lastCall.h = 2 /\ lastSet.h = 2) =>
    lastCall.written = IF lastCall.level >= lastSet.level THEN <<1>> ELSE <<>>

\* C12: NewLevelHandler over a LevelHandler returns a gate whose inner
\* handler is the inner gate's handler, and that handler is not a gate: the
\* result is never a chain of two gates.
C12_GateOverGateNeverChains ==
  (lastCall.op = "NewLevelHandler" /\ heap[lastCall.h].kind = "level") =>
    LET n == heap[Len(heap)]
    IN  /\ n.kind = "level"
        /\ n.handler = heap[lastCall.h].handler
        /\ n.handler # 0 => heap[n.handler].kind # "level"

\* C13: Handle on a nil *LevelHandler, or on a LevelHandler whose inner
\* handler is nil, returns nil and writes nothing.
C13_HandleWithoutInnerIsNoOp ==
  (lastCall.op = "Handle" /\ (lastCall.h = 0 \/ heap[lastCall.h].handler = 0)) =>
    /\ lastCall.err = 0
    /\ lastCall.written = <<>>

\* C13 witness: Handle on a gate over nil returned nil although every
\* destination refuses writes.
C13_Witness ==
  /\ lastCall.op = "Handle"
  /\ lastCall.h # 0
  /\ heap[lastCall.h].kind = "level"
  /\ heap[lastCall.h].handler = 0
  /\ lastCall.fail = Dests
  /\ lastCall.err = 0
  /\ lastCall.written = <<>>

\* An attribute survives suppression: its key is not reserved and its value
\* is not empty.
Survives(a) == a.key \notin ReservedKeys /\ a.val \notin {"str_empty", "any_nil"}

\* C14: the line has the attrs= segment iff some attribute of the record
\* survives suppression.
C14_AttrsSegmentIffSurvivor ==
  rline.done => (rline.attrs <=> \E i \in 1..Len(rattrs) : Survives(rattrs[i]))

\* C15: a record with an empty string attribute and the integer attribute
\* a=0 gets an attrs segment that holds a=0 and nothing else.
C15_EmptyStringOmittedZeroKept ==
  (/\ rline.done
   /\ Len(rattrs) = 2
   /\ \E i, j \in 1..2 :
        /\ i # j
        /\ rattrs[i].val = "str_empty"
        /\ rattrs[i].key \notin ReservedKeys
        /\ rattrs[j] = [key |-> "a", val |-> "int0"])
  => /\ rline.attrs
     /\ rline.entries = <<[key |-> "a", val |-> "int0"]>>

\* C16: no member of the attrs segment has the key time, level, source or
\* msg.
C16_NoReservedKeyInAttrs ==
  rline.done => \A k \in 1..Len(rline.entries) : rline.entries[k].key \notin ReservedKeys

\* C17: a handler derived by WithAttrs with no attributes renders a record
\* as the handler it was derived from renders it, whatever derive calls made
\* that handler.
C17_EmptyDeriveRendersAlike ==
  (rline.done /\ rh[rline.h].from # 0 /\ rh[rline.h].arg = <<>>) =>
    LET l == ConsoleLine(rh[rh[rline.h].from].textHandler, rattrs)
    IN  /\ rline.attrs = l.attrs
        /\ rline.entries = l.entries

\* C18 as stated: with a size threshold N > 0 the N-th handle since the last
\* flush has delivered exactly those N records, in order, to the inner sink
\* when it returns, and any other handle leaves its record in the backlog.
C18_ThresholdFlushDeliversAll ==
  (lastBuf.op = "handle" /\ buffers[lastBuf.b].size > 0) =>
    LET buf == buffers[lastBuf.b]
    IN  IF lastBuf.since = buf.size
        THEN /\ Len(received) = lastBuf.before + buf.size
             /\ \A i \in 1..buf.size :
                  received[lastBuf.before + i] =
                    [rec |-> lastBuf.backlog[i], sink |-> buf.inner, ok |-> TRUE]
             /\ buf.backlog = <<>>
        ELSE /\ Len(received) = lastBuf.before
             /\ buf.backlog = lastBuf.backlog

\* C18 as amended: the N-th handle since the last flush has handed those N
\* records, in order, to the inner sink up to and including the first whose
\* delivery fails, and has emptied the backlog, when it returns; any other
\* handle leaves its record in the backlog, which holds the records handled
\* since the last flush, fewer than N.
C18_ThresholdFlushDeliversUntilFailure ==
  /\ \A b \in 1..Len(buffers) :
       buffers[b].size > 0 =>
         Len(buffers[b].backlog) = buffers[b].since /\ buffers[b].since < buffers[b].size
  /\ (lastBuf.op = "handle" /\ buffers[lastBuf.b].size > 0) =>
       LET buf == buffers[lastBuf.b]
           k == IF lastBuf.f = 0 THEN buf.size ELSE lastBuf.f
       IN  IF lastBuf.since = buf.size
           THEN /\ Len(received) = lastBuf.before + k
                /\ \A i \in 1..k :
                     received[lastBuf.before + i] =
                       [rec |-> lastBuf.backlog[i], sink |-> buf.inner, ok |-> i # lastBuf.f]
                /\ buf.backlog = <<>>
           ELSE /\ Len(received) = lastBuf.before
                /\ buf.backlog = lastBuf.backlog

C18_Witness ==
  /\ lastBuf.op = "handle"
  /\ buffers[lastBuf.b].size = 2
  /\ lastBuf.since = 2
  /\ lastBuf.f = 0
  /\ Len(received) = lastBuf.before + 2
  /\ buffers[lastBuf.b].backlog = <<>>

\* C19: a flush delivers the backlog first in, first out, up to and including
\* the first record whose delivery fails and nothing after it, and the
\* backlog is empty afterwards.
C19_FlushFifoStopsAtFailure ==
  lastBuf.flushed =>
    LET bl == lastBuf.backlog
        k == IF lastBuf.f = 0 THEN Len(bl) ELSE lastBuf.f
    IN  /\ \A i, j \in 1..Len(bl) : i < j => bl[i].id < bl[j].id
        /\ Len(received) = lastBuf.before + k
        /\ \A i \in 1..k : /\ received[lastBuf.before + i].rec = bl[i]
                            /\ received[lastBuf.before + i].ok <=> i # lastBuf.f
        /\ buffers[lastBuf.b].backlog = <<>>

C19_Witness ==
  /\ lastBuf.op = "flush"
  /\ lastBuf.f # 0
  /\ lastBuf.f < Len(lastBuf.backlog)
  /\ Len(received) = lastBuf.before + lastBuf.f
  /\ buffers[lastBuf.b].backlog = <<>>

\* C20: a derive with a non-empty argument has flushed the receiver's backlog
\* to the receiver's inner sink, not to the derived one, and the new Buffer
\* has an empty backlog and a timer not started; no record is ever delivered
\* to another sink than the inner sink of the Buffer that handled it.
C20_DeriveFlushesToUnderived ==
  /\ \A i \in 1..Len(received) : received[i].sink = buffers[received[i].rec.by].inner
  /\ (lastBuf.op = "with" /\ lastBuf.res # lastBuf.b) =>
       LET old == buffers[lastBuf.b]
           new == buffers[lastBuf.res]
           k == IF lastBuf.f = 0 THEN Len(lastBuf.backlog) ELSE lastBuf.f
       IN  /\ Len(received) = lastBuf.before + k
           /\ \A i \in 1..k : /\ received[lastBuf.before + i].rec = lastBuf.backlog[i]
                               /\ received[lastBuf.before + i].sink = old.inner
           /\ new.inner # old.inner
           /\ old.backlog = <<>>
           /\ new.backlog = <<>>
           /\ ~new.timer

C20_Witness ==
  /\ lastBuf.op = "with"
  /\ lastBuf.res # lastBuf.b
  /\ Len(lastBuf.backlog) = 2
  /\ lastBuf.f = 0
  /\ buffers[lastBuf.b].timer
  /\ ~buffers[lastBuf.res].timer
  /\ Len(received) = lastBuf.before + 2

\* C21: once the Add calls that ran at the same time have all returned (and
\* no Swap since), the member list holds every member whose Add returned.
C21_NoAddLost ==
  (\A t \in Writers : wr[t].pc = "idle") =>
    returned \subseteq {Contents(arrays, ws)[k] : k \in 1..ws.len}

\* The attributes given to the WithAttrs calls that made handler h, first
\* call first.
RECURSIVE ChainArgs(_)
ChainArgs(h) ==
  IF rh[h].from = 0 THEN <<>> ELSE ChainArgs(rh[h].from) \o rh[h].arg

\* C22: the line a derived handler writes for a record holds every attribute
\* (that is not suppressed) given to every WithAttrs call that made the
\* handler.
C22_DeriveContextAccumulates ==
  rline.done =>
    LET ca == ChainArgs(rline.h)
    IN  \A k \in 1..Len(ca) :
          Survives(ca[k]) => \E i \in 1..Len(rline.entries) : rline.entries[i] = ca[k]

\* The kinds of slog.Value an encoder writes without looking into an
\* application value.
CanonicalKinds == {"String", "Bool", "Int64", "Uint64", "Float64", "Duration", "Time", "Group"}

\* C23: the value of an attribute that the function does not report empty
\* is of a canonical kind when the function returns.
C23_OnlyCanonicalKindsRemain ==
  \A t \in Norms :
    (nth[t].pc = "done" /\ ~nth[t].res.isEmpty) => nth[t].res.value.kind \in CanonicalKinds

\* String(), Error() or the serialization of the value fails.
Fails(g) == g.panics \/ g.enc \in {"error", "panic"}

\* C24 as stated: when String(), Error() or the serialization panics or
\* returns an error, no panic leaves the function, the attribute is not
\* reported empty and its value is the textual fallback.
C24_FailureKeptWithFallback ==
  \A t \in Norms :
    (nth[t].pc = "done" /\ Fails(nth[t].in)) =>
      /\ ~nth[t].res.crashed
      /\ ~nth[t].res.isEmpty
      /\ nth[t].res.value = Val("String", <<"%v">>, 0, NoGo)

\* C24 as amended: no panic leaves the function; the attribute is kept
\* with the textual fallback as its value, except that a composite whose
\* serialization returns an error is reported empty when it is the zero
\* value of its type.
C24_FailureRecovered ==
  \A t \in Norms :
    (nth[t].pc = "done" /\ Fails(nth[t].in)) =>
      /\ ~nth[t].res.crashed
      /\ IF nth[t].in.enc = "error" /\ nth[t].in.zero
         THEN nth[t].res.isEmpty
         ELSE /\ ~nth[t].res.isEmpty
              /\ nth[t].res.value = Val("String", <<"%v">>, 0, NoGo)

C24_Witness ==
  \E t \in Norms :
    /\ nth[t].pc = "done"
    /\ nth[t].in.t = "fmt.Stringer"
    /\ nth[t].in.panics
    /\ ~nth[t].res.isEmpty
    /\ nth[t].res.value.text = <<"%v">>

\* C25: a composite whose serialization is "", [], {} or null is reported
\* empty; any other composite that is serialized is kept with the
\* serialized text as its value.
C25_EmptyLiteralIsEmpty ==
  \A t \in Norms :
    (nth[t].pc = "done" /\ nth[t].in.t = "composite" /\ nth[t].in.enc \in EncTexts) =>
      IF nth[t].in.enc \in {"\"\"", "[]", "{}", "null"}
      THEN nth[t].res.isEmpty
      ELSE /\ ~nth[t].res.isEmpty
           /\ nth[t].res.value.kind = "String"
           /\ nth[t].res.value.text[1] = nth[t].in.enc

\* C26: an unsigned value above the largest signed value becomes its
\* decimal string, one within the signed range stays a number, and neither
\* is reported empty.
C26_LargeUnsignedBecomesString ==
  \A t \in Norms :
    (nth[t].pc = "done" /\ nth[t].in.t = "uint64") =>
      /\ ~nth[t].res.isEmpty
      /\ nth[t].in.n > MaxInt => nth[t].res.value.kind = "String"
      /\ nth[t].in.n <= MaxInt =>
           nth[t].res.value.kind = "Uint64" /\ nth[t].res.value.num = nth[t].in.n

\* C28: jsonMarshalableMu is free whenever no goroutine is between its Lock
\* and the return of the function.
C28_MutexFreeWhenIdle ==
  (\A t \in Norms : nth[t].pc \notin {"encode", "encoded"}) => nmu = "free"

C28_Witness ==
  /\ nmu = "free"
  /\ \A t \in Norms : nth[t].pc = "done"
  /\ nth["n1"].in.enc = "panic"
  /\ nth["n2"].in.enc = "error"

\* C27: no LevelHandler of a Logger's handler graph has a LevelHandler as
\* its inner handler.
C27_FacadeNeverChainsGates ==
  \A h \in Ids(heap) :
    (heap[h].kind = "level" /\ heap[h].handler # 0) => heap[heap[h].handler].kind # "level"

\* C29: the time field is the time of day as HH:MM:SS.mmm, the millisecond
\* with all its three digits.
C29_TimeFieldHasThreeMillisDigits ==
  tfield # <<>> =>
    tfield = Digits2(rtime.h) \o <<":">> \o Digits2(rtime.m) \o <<":">> \o Digits2(rtime.s)
               \o <<".">> \o Digits3(rtime.ms)

\* C30: the seen map of a Transport is cleared only when it holds more than
\* the limit of distinct exchanges, and between two clears an exchange that
\* went through RoundTrip with logging enabled is logged once: the first one
\* is written, an identical later one is not written again.
C30_LoggedOncePerWindow ==
  ~ltr.seen.nil =>
    /\ \A i \in 1..Len(clears) : clears[i] > MaxSeen
    /\ \A e \in Exchanges : Count(window, e) <= 1
    /\ \A t \in Callers :
         (rt[t].pc \in {"done", "panicked"} /\ rt[t].enabled /\ rt[t].at = Len(clears)) =>
           Count(window, rt[t].ex) = 1

====
